---------------------------- MODULE Spec2Model ----------------------------
(***************************************************************************)
(* Model of vault_pki.py: the versioned key/certificate store (allocation  *)
(* of version directories under the archive and key base directories),     *)
(* discovery of the current version from the live symlinks, activation by  *)
(* three symlink swaps, and rollback on failure.                           *)
(*                                                                         *)
(* A string is a sequence of tokens: a version directory name is the       *)
(* sequence of its characters, <<"0","0","0","1">>; every other name is    *)
(* one token, <<"cert.pem">>.  A path is a sequence of such names.  A live *)
(* link holds the text of its target, or NoLink when the path cannot be    *)
(* read as a symlink.  Exceptions are named by their Python class.         *)
(***************************************************************************)
EXTENDS Naturals, Integers, Sequences, FiniteSets, TLC

\* ------------------------------------------------------------------ bounds
NumVersions == 2
MaxAllocs == 3
MaxHours == 60

\* --------------------------------------------------------------- constants
Str(s) == <<s>>
EmptyStr == <<>>

KEY_FILENAME == Str("privkey.pem")
CERT_FILENAME == Str("cert.pem")
FULLCHAIN_FILENAME == Str("fullchain.pem")

fqdn == Str("myhostname")
BASE_DIR == <<Str("etc"), Str("vault_pki")>>
LIVE_DIR == BASE_DIR \o <<Str("live"), fqdn>>
ARCHIVE_DIR == BASE_DIR \o <<Str("archive"), fqdn>>
KEY_DIR == BASE_DIR \o <<Str("keys"), fqdn>>

\* version_base_dirs as checkgen_main and list_main pass it (lines 568, 597).
version_base_dirs == <<ARCHIVE_DIR, KEY_DIR>>

None == Str("None")
NoLink == <<>>
NoExc == "none"

\* The two messages a SetupError carries (lines 283-284 and 311-312).
NoMsg == "none"
OutOfSync == "ERROR: Version directories out of sync"
FailedSetup == "Failed to setup new version directory"

expected_files == {CERT_FILENAME, FULLCHAIN_FILENAME, KEY_FILENAME}

\* Mutant: the certificate link is switched first.
SwitchOrderCertFirst == <<CERT_FILENAME, KEY_FILENAME, FULLCHAIN_FILENAME>>

\* The order in which _activate_version switches the live links.
SwitchOrder == <<KEY_FILENAME, CERT_FILENAME, FULLCHAIN_FILENAME>>

\* ------------------------------------------------ version directory names
DigitChars == <<"0", "1", "2", "3", "4", "5", "6", "7", "8", "9">>
IsDigit(c) == \E d \in 1..10 : DigitChars[d] = c
DigitVal(c) == (CHOOSE d \in 1..10 : DigitChars[d] = c) - 1

\* VERSION_DIR_REGEX, '^[0-9]{4}$': re.match lets $ match at the end of the
\* string and also just before a newline that ends it.
VERSION_DIR_WIDTH == 4
Newline == "\n"
match_version_dir(name) ==
    LET digits == IF Len(name) = VERSION_DIR_WIDTH + 1 /\ name[Len(name)] = Newline
                      THEN SubSeq(name, 1, VERSION_DIR_WIDTH)
                      ELSE name
    IN  Len(digits) = VERSION_DIR_WIDTH /\ \A i \in 1..Len(digits) : IsDigit(digits[i])

\* int(version) of a string of digits; whitespace at its end is stripped.
RECURSIVE int(_)
int(name) ==
    IF Len(name) = 0 THEN 0
    ELSE IF name[Len(name)] = Newline THEN int(SubSeq(name, 1, Len(name) - 1))
    ELSE 10 * int(SubSeq(name, 1, Len(name) - 1)) + DigitVal(name[Len(name)])

\* '{:d}'.format(n): the decimal digits of n, at least one.
RECURSIVE Decimal(_)
Decimal(n) ==
    IF n < 10 THEN <<DigitChars[n + 1]>>
    ELSE Decimal(n \div 10) \o <<DigitChars[(n % 10) + 1]>>

RECURSIVE ZeroPad(_, _)
ZeroPad(digits, width) ==
    IF Len(digits) >= width THEN digits ELSE ZeroPad(<<"0">> \o digits, width)

\* VERSION_DIR_FORMAT.format(n), '{:04d}': padded with zeros to four
\* characters, and longer when n has more digits.
VERSION_DIR_FORMAT(n) == ZeroPad(Decimal(n), VERSION_DIR_WIDTH)

\* The versions the activation is asked for.
Versions == {VERSION_DIR_FORMAT(i) : i \in 1..NumVersions}

VARIABLES
    live,           \* live_dir: filename -> symlink target text, or NoLink
    temps,          \* filenames f whose temporary symlink f-<suffix> of the
                    \* current second is present in live_dir
    entries,        \* version base directory -> names of its sub-directories
    readable,       \* readable asset files, as paths
    pc,             \* position of the current _activate_version_with_rollback call
    version_str,    \* its argument
    version,        \* the version the running _activate_version is activating
    old_version,    \* captured by _get_current_version at the start of the call
    rollback_ok,
    idx,            \* index into SwitchOrder of the link being switched
    result,         \* the value returned
    exc,            \* the exception that left the call
    startLive,      \* history: live as it was when the call started
    log,            \* history: what the call did, in order
    switch_exc,     \* the exception the last _atomic_link_switch raised
    unready,        \* history: the version whose activation last failed for
                    \* want of its certificate, from live links of one version
    live_writable,  \* os.access(live_dir, os.W_OK)
    exit_status,    \* the status activate_main exited with
    new_version_str,  \* what the last create_new_version_dir returned
    setup_exc,      \* the exception that left it
    entries0,       \* history: entries before the first allocation
    allocs,         \* history: allocations run
    returned,       \* history: allocations that returned
    spoiled,        \* history: an allocation raised after it had created its
                    \* directory under every base directory
    setup_msg,      \* the message of the exception that left it
    chosen,         \* history: the new_version_str the last call computed
    before,         \* history: entries when the last create_new_version_dir began
    listed,         \* what get_version_dirs gave the last list_main
    last,           \* history: the command that ran last
    partial,        \* history: an allocation created its directory under the
                    \* first base directory and failed to under the second
    cert_present,   \* os.access(cert_path, os.F_OK)
    not_valid_before,  \* of the certificate at cert_path, in hours
    not_valid_after,
    now,            \* datetime.datetime.now(), in hours
    refresh_at,     \* the fraction <<numerator, denominator>>
    get_new_cert,   \* what new_cert_needed returned
    cert_checked,   \* history: new_cert_needed has run
    cg_pc,          \* position of the current checkgen_main run
    cg_exc,         \* the exception that left it
    cg_log,         \* history: what the run did, in order
    cg_entries      \* history: entries when the run began

mainVars == <<live_writable, exit_status>>
actVars == <<live, temps, readable, pc, version_str, version, old_version,
             rollback_ok, idx, result, exc, startLive, log, switch_exc,
             unready, mainVars>>
allocVars == <<new_version_str, setup_exc, entries0, allocs, returned, spoiled,
               setup_msg, chosen, before, listed, last, partial>>
certVars == <<cert_present, not_valid_before, not_valid_after, now,
              refresh_at, get_new_cert, cert_checked>>
genVars == <<cg_pc, cg_exc, cg_log, cg_entries>>
vars == <<actVars, entries, allocVars, certVars, genVars>>

\* ------------------------------------------------------------ os.path
dirname(p) == IF Len(p) = 0 THEN <<>> ELSE SubSeq(p, 1, Len(p) - 1)
basename(p) == IF Len(p) = 0 THEN EmptyStr ELSE p[Len(p)]

\* ------------------------------------------------- _get_version_assets
key_path(v) == KEY_DIR \o <<v, KEY_FILENAME>>
cert_path(v) == ARCHIVE_DIR \o <<v, CERT_FILENAME>>
chain_path(v) == ARCHIVE_DIR \o <<v, FULLCHAIN_FILENAME>>

\* The source each live link is switched to (lines 386-388).
SourceOf(v, f) ==
    IF f = KEY_FILENAME THEN key_path(v)
    ELSE IF f = CERT_FILENAME THEN cert_path(v)
    ELSE chain_path(v)

\* Mutant: the switch of the chain link is left out.
LastSwitch_NoChain(i) == i = Len(SwitchOrder) - 1

\* The switch after which _activate_version is done (line 388).
LastSwitch(i) == i = Len(SwitchOrder)

\* Mutant: the certificate and the chain are not checked.
get_version_assets_key_only(v, ents, rd) ==
    /\ v \in ents[ARCHIVE_DIR] /\ v \in ents[KEY_DIR]
    /\ key_path(v) \in rd

\* Mutant: only the directories are checked, not the files.
get_version_assets_dirs_only(v, ents, rd) ==
    v \in ents[ARCHIVE_DIR] /\ v \in ents[KEY_DIR]

\* TRUE when _get_version_assets returns, FALSE when it raises ActivationError.
get_version_assets_ok(v, ents, rd) ==
    /\ v \in ents[ARCHIVE_DIR] /\ v \in ents[KEY_DIR]
    /\ \A p \in {key_path(v), cert_path(v), chain_path(v)} : p \in rd

\* ------------------------------------------------ _get_current_version
missing_of(lv) == {f \in expected_files : lv[f] = NoLink}
versions_of(lv) ==
    {basename(dirname(lv[f])) : f \in expected_files \ missing_of(lv)}
        \ {EmptyStr}

\* Mutant: several versions are not told from one.
get_current_version_any(lv) ==
    LET missing == missing_of(lv)
        versions == versions_of(lv)
    IN  IF missing = expected_files
            THEN [ret |-> None, exc |-> NoExc]
        ELSE IF versions = {}
            THEN [ret |-> None, exc |-> "KeyError"]
        ELSE [ret |-> CHOOSE x \in versions : TRUE, exc |-> NoExc]

\* versions.pop() on the empty set raises KeyError (line 474).
get_current_version(lv) ==
    LET missing == missing_of(lv)
        versions == versions_of(lv)
    IN  IF missing = expected_files
            THEN [ret |-> None, exc |-> NoExc]
        ELSE IF versions # {} /\ Cardinality(versions) > 1
            THEN [ret |-> None, exc |-> NoExc]
        ELSE IF versions = {}
            THEN [ret |-> None, exc |-> "KeyError"]
        ELSE [ret |-> CHOOSE x \in versions : TRUE, exc |-> NoExc]

\* ------------------------------------------------------- exception flow
\* Mutant: the OSError of os.symlink or os.rename is not converted.
atomic_link_switch_oserror == "OSError"

\* What _atomic_link_switch raises when os.symlink or os.rename raises
\* OSError, IOError or SystemError (lines 370-372).
atomic_link_switch_except == "ActivationError"

\* The exception that leaves the except block of _activate_version (lines
\* 389-395) entered with e: logger.critical(exc_info=True) is called without
\* its msg argument and raises TypeError before the bare raise is reached.
activate_version_except(e) == "TypeError"

\* The except clause of _run_activate (lines 418-428): TRUE when it rolls back.
run_activate_rolls_back(e, rb_ok) == e = "ActivationError" /\ rb_ok

\* Exception e leaves _activate_version inside _run_activate.
Leave(e) ==
    /\ idx' = 0
    /\ IF run_activate_rolls_back(e, rollback_ok)
        THEN /\ rollback_ok' = FALSE
             /\ version' = old_version
             /\ pc' = "assets"
             /\ UNCHANGED exc
        ELSE /\ pc' = "raised"
             /\ exc' = e
             /\ UNCHANGED <<rollback_ok, version>>

Event(e, v, f) == [ev |-> e, ver |-> v, link |-> f]

InCall == pc \in {"assets", "symlink", "rename"}

\* ------------------------------------------------------ get_version_dirs
\* Mutant: the versions under the first base directory, without comparing.
get_version_dirs_first(ents) ==
    LET versions_by_base_dir ==
            [b \in DOMAIN ents |-> {n \in ents[b] : match_version_dir(n)}]
    IN  [ret |-> versions_by_base_dir[version_base_dirs[1]], exc |-> NoExc,
         msg |-> NoMsg]

\* Lines 263-287: the names matching VERSION_DIR_REGEX under each base
\* directory; SetupError when a base directory differs from the first.
get_version_dirs(ents) ==
    LET versions_by_base_dir ==
            [b \in DOMAIN ents |-> {n \in ents[b] : match_version_dir(n)}]
        match_values == versions_by_base_dir[version_base_dirs[1]]
        errors == {b \in DOMAIN ents : versions_by_base_dir[b] # match_values}
    IN  IF errors # {}
            THEN [ret |-> {}, exc |-> "SetupError", msg |-> OutOfSync]
            ELSE [ret |-> match_values, exc |-> NoExc, msg |-> NoMsg]

\* ------------------------------------------------ create_new_version_dir
\* What os.makedirs and os.chown do for one base directory.
Outcomes == {"ok", "makedirs_fails", "chown_fails"}

Max(S) == CHOOSE x \in S : \A y \in S : y <= x

\* Mutant: the first version is numbered 0.
new_version_from_zero(version_dirs) ==
    LET versions == {int(n) : n \in version_dirs}
    IN  IF versions # {} THEN Max(versions) + 1 ELSE 0

\* Lines 299-304.
new_version_of(version_dirs) ==
    LET versions == {int(n) : n \in version_dirs}
    IN  IF versions # {} THEN Max(versions) + 1 ELSE 1

\* Lines 305-313 from the i-th base directory on: os.makedirs raises OSError
\* when new_dir exists, and either call may raise it for other reasons.
RECURSIVE make_version_dirs(_, _, _, _)
make_version_dirs(ents, name, outcome, i) ==
    IF i > Len(version_base_dirs)
        THEN [entries |-> ents, exc |-> NoExc]
    ELSE LET b == version_base_dirs[i]
             made == [ents EXCEPT ![b] = @ \cup {name}]
         IN  IF name \in ents[b] \/ outcome[i] = "makedirs_fails"
                 THEN [entries |-> ents, exc |-> "SetupError"]
             ELSE IF outcome[i] = "chown_fails"
                 THEN [entries |-> made, exc |-> "SetupError"]
             ELSE make_version_dirs(made, name, outcome, i + 1)

create_new_version_dir(ents, outcome) ==
    LET version_dirs == get_version_dirs(ents)
        name == VERSION_DIR_FORMAT(new_version_of(version_dirs.ret))
        made == make_version_dirs(ents, name, outcome, 1)
    IN  IF version_dirs.exc # NoExc
            THEN [entries |-> ents, ret |-> None, exc |-> version_dirs.exc,
                  msg |-> version_dirs.msg, name |-> None]
        ELSE IF made.exc # NoExc
            THEN [entries |-> made.entries, ret |-> None, exc |-> made.exc,
                  msg |-> FailedSetup, name |-> name]
        ELSE [entries |-> made.entries, ret |-> name, exc |-> NoExc,
              msg |-> NoMsg, name |-> name]

\* -------------------------------------------------------- new_cert_needed
\* timedelta.days counts whole days of 24 hours.
HoursPerDay == 24

\* Lines 323-342.  Times are hours; refresh is <<numerator, denominator>> with
\* a denominator that divides HoursPerDay, so that the float product
\* validity_period.days * refresh_at is a whole number of hours.
new_cert_needed(present, not_before, not_after, t, refresh) ==
    IF ~present THEN TRUE
    ELSE LET validity_period == not_after - not_before
             days == validity_period \div HoursPerDay
             refresh_offset == (days * refresh[1] * HoursPerDay) \div refresh[2]
             refresh_after_date == not_before + refresh_offset
         IN  t > refresh_after_date

\* ------------------------------------------------------------- the store
Shapes == {"absent", "pending", "intact"}

ShapeDirs(shape) == {v \in Versions : shape[v] # "absent"}
ShapeFiles(shape) ==
    {key_path(v) : v \in {w \in Versions : shape[w] # "absent"}}
    \cup {cert_path(v) : v \in {w \in Versions : shape[w] = "intact"}}
    \cup {chain_path(v) : v \in {w \in Versions : shape[w] = "intact"}}

BaseDirs == {version_base_dirs[i] : i \in 1..Len(version_base_dirs)}

\* What a live link may hold before the first call: nothing, the asset of a
\* version, or a target without a parent directory.
LinkTargets(f) == {NoLink, <<f>>} \cup {SourceOf(v, f) : v \in Versions}

\* Names found under a base directory before the first allocation.
NamePool ==
    {VERSION_DIR_FORMAT(1), VERSION_DIR_FORMAT(2), VERSION_DIR_FORMAT(9999),
     Decimal(10000), <<"0", "0", "1", "a">>}

\* No activation has run.
ActIdle ==
    /\ temps = {}
    /\ pc = "idle"
    /\ version_str = None
    /\ version = None
    /\ old_version = None
    /\ rollback_ok = FALSE
    /\ idx = 0
    /\ result = None
    /\ exc = NoExc
    /\ startLive = live
    /\ log = <<>>
    /\ switch_exc = NoExc
    /\ unready = None
    /\ live_writable = TRUE
    /\ exit_status = None

\* No allocation has run.
AllocIdle ==
    /\ new_version_str = None
    /\ setup_exc = NoExc
    /\ entries0 = entries
    /\ allocs = 0
    /\ returned = 0
    /\ spoiled = FALSE
    /\ setup_msg = NoMsg
    /\ chosen = None
    /\ before = entries
    /\ listed = None
    /\ last = "none"
    /\ partial = FALSE

\* No certificate has been examined.
CertIdle ==
    /\ cert_present = FALSE
    /\ not_valid_before = 0
    /\ not_valid_after = 0
    /\ now = 0
    /\ refresh_at = <<1, 2>>
    /\ get_new_cert = FALSE
    /\ cert_checked = FALSE

\* No checkgen has run.
GenIdle ==
    /\ cg_pc = "idle"
    /\ cg_exc = NoExc
    /\ cg_log = <<>>
    /\ cg_entries = entries

Init ==
    /\ live \in [expected_files -> UNION {LinkTargets(f) : f \in expected_files}]
    /\ \A f \in expected_files : live[f] \in LinkTargets(f)
    /\ \E shape \in [Versions -> Shapes] :
        /\ entries = [b \in BaseDirs |-> ShapeDirs(shape)]
        /\ readable = ShapeFiles(shape)
    /\ ActIdle
    /\ AllocIdle
    /\ CertIdle
    /\ GenIdle

InitAlloc ==
    /\ live = [f \in expected_files |-> NoLink]
    /\ entries \in [BaseDirs -> SUBSET NamePool]
    /\ readable = {}
    /\ ActIdle
    /\ AllocIdle
    /\ CertIdle
    /\ GenIdle

\* ------------------------------------- _activate_version_with_rollback
\* Lines 404-411 and the entry of _run_activate at line 431.
Call(v) ==
    /\ ~InCall
    /\ version_str' = v
    /\ startLive' = live
    /\ log' = <<>>
    /\ switch_exc' = NoExc
    /\ result' = None
    /\ idx' = 0
    /\ LET r == get_current_version(live)
       IN  IF r.exc # NoExc
               THEN /\ pc' = "raised"
                    /\ exc' = r.exc
                    /\ old_version' = None
                    /\ rollback_ok' = FALSE
                    /\ version' = None
               ELSE /\ pc' = "assets"
                    /\ exc' = NoExc
                    /\ old_version' = r.ret
                    /\ rollback_ok' = (r.ret # None)
                    /\ version' = v
    /\ exit_status' = None
    /\ UNCHANGED <<live, temps, entries, readable, unready, live_writable,
                   allocVars, certVars, genVars>>

\* History: the forward activation of v, begun with the live links of one
\* version, finds v's directories and key but not its certificate and chain.
NotReady(v) ==
    /\ log = <<>>
    /\ \E old \in Versions : \A f \in expected_files : startLive[f] = SourceOf(old, f)
    /\ v \in entries[ARCHIVE_DIR] \cap entries[KEY_DIR]
    /\ key_path(v) \in readable
    /\ cert_path(v) \notin readable
    /\ chain_path(v) \notin readable

\* Mutant: the key link is switched before the assets are checked.
GetVersionAssetsAfterKey ==
    /\ pc = "assets"
    /\ IF get_version_assets_ok(version, entries, readable)
           THEN /\ log' = Append(log, Event("assets_ok", version, EmptyStr))
                /\ pc' = "symlink"
                /\ idx' = 1
                /\ UNCHANGED <<rollback_ok, version, exc, live, unready>>
           ELSE /\ log' = Append(log, Event("assets_fail", version, EmptyStr))
                /\ unready' = IF NotReady(version) THEN version ELSE unready
                /\ live' = [live EXCEPT ![KEY_FILENAME] = SourceOf(version, KEY_FILENAME)]
                /\ Leave("ActivationError")
    /\ UNCHANGED <<temps, entries, readable, version_str, old_version,
                   result, startLive, mainVars, switch_exc, allocVars,
                   certVars, genVars>>

\* activate_main, lines 520-533: the version string and the live directory
\* are checked, then _activate_version_with_rollback is called.
ActivateMain(arg) ==
    /\ ~InCall
    /\ IF ~match_version_dir(arg) \/ ~live_writable
           THEN /\ pc' = "exited"
                /\ exit_status' = 1
                /\ version_str' = arg
                /\ startLive' = live
                /\ log' = <<>>
                /\ switch_exc' = NoExc
                /\ result' = None
                /\ idx' = 0
                /\ exc' = "SystemExit"
                /\ old_version' = None
                /\ rollback_ok' = FALSE
                /\ version' = None
                /\ UNCHANGED <<live, temps, entries, readable, unready,
                               live_writable, allocVars, certVars, genVars>>
           ELSE Call(arg)

\* _activate_version, line 384: the asset check of the version being activated.
GetVersionAssets ==
    /\ pc = "assets"
    /\ IF get_version_assets_ok(version, entries, readable)
           THEN /\ log' = Append(log, Event("assets_ok", version, EmptyStr))
                /\ pc' = "symlink"
                /\ idx' = 1
                /\ UNCHANGED <<rollback_ok, version, exc, unready>>
           ELSE /\ log' = Append(log, Event("assets_fail", version, EmptyStr))
                /\ unready' = IF NotReady(version) THEN version ELSE unready
                /\ Leave("ActivationError")
    /\ UNCHANGED <<live, temps, entries, readable, version_str, old_version,
                   result, startLive, mainVars, switch_exc, allocVars,
                   certVars, genVars>>

\* _atomic_link_switch, lines 364-368: os.symlink(source, temp_destination).
SymlinkOK ==
    /\ pc = "symlink"
    /\ SwitchOrder[idx] \notin temps
    /\ temps' = temps \cup {SwitchOrder[idx]}
    /\ pc' = "rename"
    /\ UNCHANGED <<live, entries, readable, version_str, version, old_version,
                   rollback_ok, idx, result, exc, startLive, unready,
                   mainVars, log, switch_exc, allocVars,
                   certVars, genVars>>

\* os.symlink raises OSError: temp_destination exists already, or the
\* filesystem refuses (lines 370-372 turn it into ActivationError).
SymlinkFails ==
    /\ pc = "symlink"
    /\ log' = Append(log, Event("switch_fail", version, SwitchOrder[idx]))
    /\ switch_exc' = atomic_link_switch_except
    /\ Leave(activate_version_except(atomic_link_switch_except))
    /\ UNCHANGED <<live, temps, entries, readable, version_str, old_version,
                   result, startLive, unready,
                   mainVars, allocVars, certVars, genVars>>

\* _atomic_link_switch, line 369: os.rename(temp_destination, destination).
RenameOK ==
    /\ pc = "rename"
    /\ live' = [live EXCEPT ![SwitchOrder[idx]] = SourceOf(version, SwitchOrder[idx])]
    /\ temps' = temps \ {SwitchOrder[idx]}
    /\ log' = Append(log, Event("switch_ok", version, SwitchOrder[idx]))
    /\ switch_exc' = NoExc
    /\ IF LastSwitch(idx)
           THEN /\ pc' = "returned"
                /\ result' = version
                /\ idx' = 0
           ELSE /\ pc' = "symlink"
                /\ idx' = idx + 1
                /\ UNCHANGED result
    /\ UNCHANGED <<entries, readable, version_str, version, old_version,
                   rollback_ok, exc, startLive, unready,
                   mainVars, allocVars, certVars, genVars>>

\* os.rename raises OSError: the temporary symlink stays behind.
RenameFails ==
    /\ pc = "rename"
    /\ log' = Append(log, Event("switch_fail", version, SwitchOrder[idx]))
    /\ switch_exc' = atomic_link_switch_except
    /\ Leave(activate_version_except(atomic_link_switch_except))
    /\ UNCHANGED <<live, temps, entries, readable, version_str, old_version,
                   result, startLive, unready,
                   mainVars, allocVars, certVars, genVars>>

\* ------------------------------------------------------- the environment
\* The clock passes into the next second: now.strftime('%s') (line 365) names
\* new temporary paths, and no temporary symlink left behind so far can be
\* met again.
Tick ==
    /\ temps # {}
    /\ temps' = {}
    /\ UNCHANGED <<live, entries, readable, pc, version_str, version,
                   old_version, rollback_ok, idx, result, exc, startLive, unready,
                   mainVars, log,
                   switch_exc, allocVars,
                   certVars, genVars>>

\* The salt runner writes the signed certificate and chain of a version, between
\* two runs of the command (the module docstring, lines 5-11).
SignerWrites(v) ==
    /\ ~InCall
    /\ v \in entries[ARCHIVE_DIR]
    /\ ~({cert_path(v), chain_path(v)} \subseteq readable)
    /\ readable' = readable \cup {cert_path(v), chain_path(v)}
    /\ pc' = "idle"
    /\ UNCHANGED <<live, temps, entries, version_str, version, old_version,
                   rollback_ok, idx, result, exc, startLive, unready,
                   mainVars, log, switch_exc, allocVars,
                   certVars, genVars>>

\* ------------------------------------------------------ the allocation
\* One call of create_new_version_dir([archive_dir, key_dir], ...).
CreateNewVersionDir(outcome) ==
    /\ allocs < MaxAllocs
    /\ \E r \in {create_new_version_dir(entries, outcome)} :
           /\ entries' = r.entries
           /\ new_version_str' = r.ret
           /\ setup_exc' = r.exc
           /\ returned' = IF r.exc = NoExc THEN returned + 1 ELSE returned
           /\ spoiled' = (spoiled \/
                (r.exc # NoExc /\ \A b \in BaseDirs : r.entries[b] # entries[b]))
           /\ setup_msg' = r.msg
           /\ chosen' = r.name
           /\ partial' = (partial \/
                (/\ r.exc # NoExc
                 /\ r.entries[version_base_dirs[1]] # entries[version_base_dirs[1]]
                 /\ r.entries[version_base_dirs[2]] = entries[version_base_dirs[2]]))
    /\ before' = entries
    /\ last' = "create"
    /\ allocs' = allocs + 1
    /\ UNCHANGED <<actVars, certVars, genVars, entries0, listed>>

\* list_main, lines 596-601: the current version, then the version directories
\* (what it prints is not kept).
ListMain ==
    /\ LET current_version == get_current_version(live)
           version_dirs == get_version_dirs(entries)
       IN  listed' = IF current_version.exc # NoExc
                         THEN [ret |-> {}, exc |-> current_version.exc,
                               msg |-> NoMsg]
                         ELSE version_dirs
    /\ last' = "list"
    /\ UNCHANGED <<actVars, certVars, genVars, entries, new_version_str, setup_exc, entries0,
                   allocs, returned, spoiled, setup_msg, chosen, before,
                   partial>>

Next ==
    \/ \E v \in Versions : Call(v)
    \/ GetVersionAssets
    \/ SymlinkOK
    \/ SymlinkFails
    \/ RenameOK
    \/ RenameFails
    \/ Tick
    \/ \E v \in Versions : SignerWrites(v)

Spec == Init /\ [][Next]_vars

NextAlloc ==
    \/ \E outcome \in [1..Len(version_base_dirs) -> Outcomes] :
        CreateNewVersionDir(outcome)
    \/ ListMain

SpecAlloc == InitAlloc /\ [][NextAlloc]_vars

\* ------------------------------------------------- the activate command
\* Version strings given on the command line that are no version.
BadArgs ==
    {<<"0", "0", "1">>, <<"0", "0", "1", "a">>, Decimal(10000),
     VERSION_DIR_FORMAT(1) \o <<Newline>>}

InitMain ==
    /\ live \in [expected_files -> UNION {LinkTargets(f) : f \in expected_files}]
    /\ \A f \in expected_files : live[f] \in LinkTargets(f)
    /\ \E shape \in [Versions -> Shapes] :
        /\ entries = [b \in BaseDirs |-> ShapeDirs(shape)]
        /\ readable = ShapeFiles(shape)
    /\ temps = {}
    /\ pc = "idle"
    /\ version_str = None
    /\ version = None
    /\ old_version = None
    /\ rollback_ok = FALSE
    /\ idx = 0
    /\ result = None
    /\ exc = NoExc
    /\ startLive = live
    /\ log = <<>>
    /\ switch_exc = NoExc
    /\ unready = None
    /\ live_writable \in BOOLEAN
    /\ exit_status = None
    /\ AllocIdle
    /\ CertIdle
    /\ GenIdle

NextMain ==
    \/ \E arg \in Versions \cup BadArgs : ActivateMain(arg)
    \/ GetVersionAssets
    \/ SymlinkOK
    \/ SymlinkFails
    \/ RenameOK
    \/ RenameFails
    \/ Tick
    \/ \E v \in Versions : SignerWrites(v)

SpecMain == InitMain /\ [][NextMain]_vars

\* -------------------------------------------------- the certificate check
\* The fractions new_cert_needed is called with; 0.5 is the default.
RefreshFractions == {<<1, 4>>, <<1, 2>>, <<3, 4>>}
\* The validity windows: every number of hours up to MaxHours, and 100 days.
Windows == 0..MaxHours \cup {100 * HoursPerDay}
\* The times of the check, counted from not_valid_before.
Offsets == 0..(MaxHours + 1) \cup {49 * HoursPerDay, 51 * HoursPerDay}

InitCert ==
    /\ live = [f \in expected_files |-> NoLink]
    /\ entries = [b \in BaseDirs |-> {}]
    /\ readable = {}
    /\ ActIdle
    /\ AllocIdle
    /\ GenIdle
    /\ cert_present \in BOOLEAN
    /\ not_valid_before \in {0, 1}
    /\ \E w \in Windows : not_valid_after = not_valid_before + w
    /\ \E o \in Offsets : now = not_valid_before + o
    /\ refresh_at \in RefreshFractions
    /\ get_new_cert = FALSE
    /\ cert_checked = FALSE
    /\ cert_present \/ (not_valid_before = 0 /\ not_valid_after = 0)

\* checkgen_main, line 567: new_cert_needed(cert_path).
NewCertNeeded ==
    /\ ~cert_checked
    /\ cert_checked' = TRUE
    /\ get_new_cert' = new_cert_needed(cert_present, not_valid_before,
                                       not_valid_after, now, refresh_at)
    /\ UNCHANGED <<actVars, entries, allocVars, genVars, cert_present,
                   not_valid_before, not_valid_after, now, refresh_at>>

NextCert == NewCertNeeded

SpecCert == InitCert /\ [][NextCert]_vars

\* ------------------------------------------------------------ checkgen_main
\* os.access(cert_path, os.F_OK) for cert_path = live_dir/cert.pem (lines 325,
\* 565): the link is followed, so it must lead to a file.
cert_exists(lv, rd) == lv[CERT_FILENAME] \in rd

\* What open, os.chmod and os.chown do in generate (lines 225-234).
GenerateOutcomes == {"ok", "open_fails", "chmod_fails"}

\* The exception that leaves generate when os.chmod or os.chown raises
\* OSError: GenerationError where IOError is OSError (Python 3), the OSError
\* itself where it is not (Python 2).
ChmodExceptions == {"GenerationError", "OSError"}

CgEvent(e, path) == [ev |-> e, path |-> path]

\* The live links of a store in use: none yet, or those of one version.
LiveStates ==
    {[f \in expected_files |-> NoLink]}
    \cup {[f \in expected_files |-> SourceOf(v, f)] : v \in Versions}

\* Version directories found before the first run of checkgen.
CheckgenPool == {VERSION_DIR_FORMAT(1), VERSION_DIR_FORMAT(9999)}

\* Validity windows of the live certificate and times of the run, in hours
\* from not_valid_before.
CheckgenWindows == {36, 48}
CheckgenOffsets == {12, 15, 30}

InitCheckgen ==
    /\ live \in LiveStates
    /\ entries \in [BaseDirs -> SUBSET CheckgenPool]
    /\ readable = ShapeFiles([v \in Versions |->
            IF v \in entries[ARCHIVE_DIR] \cap entries[KEY_DIR]
                THEN "intact" ELSE "absent"])
    /\ ActIdle
    /\ AllocIdle
    /\ GenIdle
    /\ cert_present = FALSE
    /\ not_valid_before = 0
    /\ not_valid_after \in CheckgenWindows
    /\ now \in CheckgenOffsets
    /\ refresh_at = <<1, 2>>
    /\ get_new_cert = FALSE
    /\ cert_checked = FALSE

CgInRun == cg_pc \in {"allocate", "generate", "send"}

\* Lines 549-567: the directory tree is set up (the base directories of the
\* model exist, so nothing changes), then new_cert_needed(cert_path) decides.
CheckgenMain(setup_ok) ==
    /\ ~CgInRun
    /\ allocs < MaxAllocs
    /\ cg_log' = <<>>
    /\ cg_entries' = entries
    /\ IF ~setup_ok
           THEN /\ cg_pc' = "raised"
                /\ cg_exc' = "SetupError"
                /\ UNCHANGED <<cert_present, get_new_cert, cert_checked>>
           ELSE /\ cert_present' = cert_exists(live, readable)
                /\ get_new_cert' = new_cert_needed(cert_exists(live, readable),
                        not_valid_before, not_valid_after, now, refresh_at)
                /\ cert_checked' = TRUE
                /\ cg_pc' = IF get_new_cert' THEN "allocate" ELSE "done"
                /\ cg_exc' = NoExc
    /\ UNCHANGED <<actVars, entries, allocVars, not_valid_before,
                   not_valid_after, now, refresh_at>>

\* Lines 568-572: create_new_version_dir(version_base_dirs, ...).
CheckgenAllocate(outcome) ==
    /\ cg_pc = "allocate"
    /\ \E r \in {create_new_version_dir(entries, outcome)} :
           /\ entries' = r.entries
           /\ new_version_str' = r.ret
           /\ setup_exc' = r.exc
           /\ setup_msg' = r.msg
           /\ chosen' = r.name
           /\ returned' = IF r.exc = NoExc THEN returned + 1 ELSE returned
           /\ spoiled' = (spoiled \/
                (r.exc # NoExc /\ \A b \in BaseDirs : r.entries[b] # entries[b]))
           /\ partial' = (partial \/
                (/\ r.exc # NoExc
                 /\ r.entries[version_base_dirs[1]] # entries[version_base_dirs[1]]
                 /\ r.entries[version_base_dirs[2]] = entries[version_base_dirs[2]]))
           /\ IF r.exc # NoExc
                  THEN /\ cg_pc' = "raised"
                       /\ cg_exc' = r.exc
                       /\ UNCHANGED cg_log
                  ELSE /\ cg_pc' = "generate"
                       /\ cg_log' = Append(cg_log, CgEvent("allocate", <<r.ret>>))
                       /\ UNCHANGED cg_exc
    /\ before' = entries
    /\ last' = "create"
    /\ allocs' = allocs + 1
    /\ UNCHANGED <<actVars, certVars, entries0, listed, cg_entries>>

\* Lines 573-578: generate(fqdn, new_key_dir, ...) writes the private key.
CheckgenGenerate(outcome) ==
    /\ cg_pc = "generate"
    /\ LET new_key_dir == KEY_DIR \o <<new_version_str>>
           priv_key_filepath == new_key_dir \o <<KEY_FILENAME>>
       IN  /\ readable' = IF outcome = "open_fails" THEN readable
                           ELSE readable \cup {priv_key_filepath}
           /\ IF outcome = "ok"
                  THEN /\ cg_pc' = "send"
                       /\ cg_log' = Append(cg_log, CgEvent("generate", new_key_dir))
                       /\ UNCHANGED cg_exc
                  ELSE /\ cg_pc' = "raised"
                       /\ IF outcome = "open_fails"
                              THEN cg_exc' = "UnboundLocalError"
                              ELSE cg_exc' \in ChmodExceptions
                       /\ UNCHANGED cg_log
    /\ UNCHANGED <<live, temps, pc, version_str, version, old_version,
                   rollback_ok, idx, result, exc, startLive, unready,
                   mainVars, log, switch_exc,
                   entries, allocVars, certVars, cg_entries>>

\* Lines 579-582: send_cert_request(SALT_EVENT_TAG, new_archive_dir, csr).
CheckgenSend(sent_ok) ==
    /\ cg_pc = "send"
    /\ LET new_archive_dir == ARCHIVE_DIR \o <<new_version_str>>
       IN  cg_log' = Append(cg_log, CgEvent("send", new_archive_dir))
    /\ cg_pc' = "done"
    /\ UNCHANGED <<actVars, entries, allocVars, certVars, cg_exc, cg_entries>>

NextCheckgen ==
    \/ \E setup_ok \in BOOLEAN : CheckgenMain(setup_ok)
    \/ \E outcome \in [1..Len(version_base_dirs) -> Outcomes] :
        CheckgenAllocate(outcome)
    \/ \E outcome \in GenerateOutcomes : CheckgenGenerate(outcome)
    \/ \E sent_ok \in BOOLEAN : CheckgenSend(sent_ok)

SpecCheckgen == InitCheckgen /\ [][NextCheckgen]_vars

\* ================================================================ claims
V1 == <<"0", "0", "0", "1">>
V2 == <<"0", "0", "0", "2">>

\* Link f of lv points at the asset of version v that belongs under that name.
PointsInto(lv, f, v) ==
    lv[f] = (IF f = KEY_FILENAME THEN KEY_DIR ELSE ARCHIVE_DIR) \o <<v, f>>

\* Consistent(v): all three live links resolve into version v.
Consistent(lv, v) == \A f \in expected_files : PointsInto(lv, f, v)
Fresh(lv) == \A f \in expected_files : lv[f] = NoLink

\* The versions the links of lv that can be read resolve into.
ReadVersions(lv) ==
    {v \in Versions : \E f \in expected_files : PointsInto(lv, f, v)}

\* Version v has both directories and all three files readable.
Intact(v) ==
    /\ v \in entries[ARCHIVE_DIR] \cap entries[KEY_DIR]
    /\ ARCHIVE_DIR \o <<v, CERT_FILENAME>> \in readable
    /\ ARCHIVE_DIR \o <<v, FULLCHAIN_FILENAME>> \in readable
    /\ KEY_DIR \o <<v, KEY_FILENAME>> \in readable

Finished == pc \in {"returned", "raised"}
Started == pc # "idle"

AssetEvents == {"assets_ok", "assets_fail"}
\* Invocations of _activate_version by the call so far.
Attempts ==
    Cardinality({i \in DOMAIN log : log[i].ev \in AssetEvents})
    + (IF pc = "assets" THEN 1 ELSE 0)
SwitchFailed == \E i \in DOMAIN log : log[i].ev = "switch_fail"
\* A link switch of the forward activation failed.
ForwardSwitchFailed ==
    \E i \in DOMAIN log :
        /\ log[i].ev = "switch_fail"
        /\ \A j \in 2..i : log[j].ev \notin AssetEvents
ForwardAssetsFailed == log # <<>> /\ log[1].ev = "assets_fail"

\* C1: whenever _activate_version_with_rollback returns r, r is the requested
\* or the old version, all three live links resolve into r and
\* _get_current_version returns r; and a call for a version whose assets are
\* readable and whose switches all succeed returns that version, from any
\* starting live state.
C1_RoundTrip ==
    /\ pc = "returned" =>
        /\ result \in {version_str, old_version}
        /\ Consistent(live, result)
        /\ get_current_version(live) = [ret |-> result, exc |-> NoExc]
    /\ (Finished /\ Intact(version_str) /\ ~SwitchFailed) =>
        (pc = "returned" /\ result = version_str)

\* C2 as stated: from Consistent(v1) with v1 intact, activating a version
\* whose directories or certificate files are missing returns v1 without
\* raising, and _get_current_version returns v1 afterwards.
C2_RollbackReturnsOld ==
    \A v1 \in Versions :
        (Finished /\ Consistent(startLive, v1) /\ Intact(v1)
            /\ ~Intact(version_str)) =>
        /\ pc = "returned"
        /\ result = v1
        /\ get_current_version(live).ret = v1

\* C2 amended: the same, provided every link switch of the rollback succeeds.
C2_RollbackReturnsOldIfSwitched ==
    \A v1 \in Versions :
        (Finished /\ Consistent(startLive, v1) /\ Intact(v1)
            /\ ~Intact(version_str) /\ ~SwitchFailed) =>
        /\ pc = "returned"
        /\ result = v1
        /\ Consistent(live, v1)
        /\ get_current_version(live).ret = v1

C2_Witness ==
    /\ pc = "returned"
    /\ Consistent(startLive, V1) /\ Intact(V1)
    /\ version_str = V2 /\ ~Intact(V2)
    /\ result = V1
    /\ Len(log) = 5

\* C3: when a link switch of the forward activation fails and the old version
\* is not none, the old version is activated exactly once, and when the
\* switches of that rollback succeed the call returns old with all three live
\* links resolving into old.
C3_RollbackAfterSwitchFailure ==
    (Finished /\ ForwardSwitchFailed /\ old_version # None) =>
        /\ Attempts = 2
        /\ (Cardinality({i \in DOMAIN log : log[i].ev = "switch_fail"}) = 1) =>
            (pc = "returned" /\ result = old_version
                /\ Consistent(live, old_version))

\* C4 as stated: at every step of a call that started from Consistent(old),
\* the three live links resolve into one and the same version.
C4_NeverMixed ==
    (Started /\ \E old \in Versions : Consistent(startLive, old)) =>
        \E v \in Versions : Consistent(live, v)

\* C4 amended: at every step of a call that started from Consistent(old), each
\* live link resolves into old or into the requested version, and when the
\* call has returned all three resolve into one and the same version.
C4_MixedOnlyDuringCall ==
    \A old \in Versions :
        (Started /\ Consistent(startLive, old)) =>
            /\ \A f \in expected_files :
                PointsInto(live, f, old) \/ PointsInto(live, f, version_str)
            /\ pc = "returned" => \E v \in Versions : Consistent(live, v)

C4_Witness ==
    /\ pc = "symlink"
    /\ Consistent(startLive, V1)
    /\ version_str = V2
    /\ PointsInto(live, KEY_FILENAME, V2)
    /\ PointsInto(live, CERT_FILENAME, V1)

\* C5: on a live directory without any of the three links
\* _get_current_version returns none without raising, and a call whose forward
\* activation fails attempts no rollback and raises the ActivationError.
C5_FreshNoRollback ==
    (Started /\ Fresh(startLive)) =>
        /\ old_version = None
        /\ exc # "KeyError"
        /\ Attempts <= 1
        /\ pc = "raised" => exc = "ActivationError"

\* C6: when the live links that can be read resolve into more than one
\* version, _get_current_version returns none.
C6_AmbiguousIsNone ==
    (Started /\ Cardinality(ReadVersions(startLive)) > 1) =>
        (old_version = None /\ exc # "KeyError" /\ ~rollback_ok)

C6_Witness ==
    /\ pc = "assets"
    /\ PointsInto(startLive, KEY_FILENAME, V1)
    /\ PointsInto(startLive, CERT_FILENAME, V1)
    /\ PointsInto(startLive, FULLCHAIN_FILENAME, V2)
    /\ old_version = None

\* C7: when some but not all of the three live links are missing,
\* _get_current_version returns none.
C7_PartlyMissingIsNone ==
    (Started /\ ~Fresh(startLive)
        /\ \E f \in expected_files : startLive[f] = NoLink) =>
        old_version = None

\* C8: a rollback activation is performed only if, when the call started, all
\* three live links were present and resolved into one single version.
C8_RollbackOnlyFromConsistent ==
    (Started /\ Attempts = 2) =>
        \E v \in Versions : Consistent(startLive, v)

\* C9: _get_current_version returns none or a version id for every
\* configuration of the three live paths; it never raises.
C9_CurrentVersionNeverRaises ==
    Started => (exc # "KeyError" /\ old_version \in Versions \cup {None})

\* The names under base directory b that are version directories.
VersionsUnder(b) ==
    {n \in entries[b] : Len(n) = 4 /\ \A i \in 1..4 : n[i] \in
        {"0", "1", "2", "3", "4", "5", "6", "7", "8", "9"}}
StartedEmpty == \A b \in BaseDirs : entries0[b] = {}
AllocReturned == allocs > 0 /\ setup_exc = NoExc

\* C10 as stated: from an empty pair of base directories the n-th successful
\* create_new_version_dir returns n as a 4-digit string, and after every
\* successful call both base directories hold the same version directories.
C10_NthSuccessReturnsN ==
    (StartedEmpty /\ AllocReturned) =>
        /\ new_version_str = ZeroPad(Decimal(returned), 4)
        /\ Len(new_version_str) = 4
        /\ VersionsUnder(ARCHIVE_DIR) = VersionsUnder(KEY_DIR)

\* C10 amended: the same, provided no earlier call raised after it had created
\* its directory under both base directories.
C10_NthSuccessReturnsNUnspoiled ==
    (StartedEmpty /\ AllocReturned) =>
        /\ ~spoiled =>
            /\ new_version_str = ZeroPad(Decimal(returned), 4)
            /\ Len(new_version_str) = 4
        /\ VersionsUnder(ARCHIVE_DIR) = VersionsUnder(KEY_DIR)
        /\ new_version_str \in VersionsUnder(ARCHIVE_DIR)

C10_Witness ==
    /\ StartedEmpty /\ AllocReturned /\ ~spoiled
    /\ allocs = 3 /\ returned = 2
    /\ new_version_str = <<"0", "0", "0", "2">>
    /\ entries[KEY_DIR] = {<<"0", "0", "0", "1">>, <<"0", "0", "0", "2">>}

\* The 4-digit names among the sub-directories ents lists under b.
FourDigits(ents, b) ==
    {n \in ents[b] : Len(n) = 4 /\ \A i \in 1..4 : n[i] \in
        {"0", "1", "2", "3", "4", "5", "6", "7", "8", "9"}}
\* Two base directories of ents differ in their 4-digit names.
Differ(ents) ==
    \E b1 \in BaseDirs : \E b2 \in BaseDirs :
        FourDigits(ents, b1) # FourDigits(ents, b2)
Created == last = "create"
Listed == last = "list"

\* C11: when the sets of 4-digit names differ between two base directories,
\* get_version_dirs raises the out-of-sync SetupError, and
\* create_new_version_dir raises it too and creates no directory under any
\* base directory.
C11_InconsistentRejected ==
    /\ (Listed /\ Differ(entries)) =>
        (listed.exc = "SetupError" /\ listed.msg = OutOfSync)
    /\ (Created /\ Differ(before)) =>
        /\ setup_exc = "SetupError"
        /\ setup_msg = OutOfSync
        /\ new_version_str = None
        /\ entries = before

C11_Witness ==
    /\ Created
    /\ FourDigits(before, ARCHIVE_DIR) = {V1, V2}
    /\ FourDigits(before, KEY_DIR) = {V1}
    /\ <<"0", "0", "1", "a">> \in before[KEY_DIR]
    /\ setup_msg = OutOfSync
    /\ entries = before

\* C12: the identifier create_new_version_dir returns and the name of the
\* directory it creates are exactly 4 decimal digits, for every universe
\* get_version_dirs returned, so that the new version is in the universe the
\* next get_version_dirs returns.
C12_AlwaysFourDigits ==
    /\ (Created /\ chosen # None) =>
        /\ Len(chosen) = 4
        /\ \A b \in BaseDirs : entries[b] \ before[b] \subseteq FourDigits(entries, b)
    /\ (Created /\ setup_exc = NoExc) =>
        /\ new_version_str = chosen
        /\ \A b \in BaseDirs : new_version_str \in FourDigits(entries, b)

\* C13: whenever get_version_dirs succeeds inside create_new_version_dir the
\* identifier chosen is not yet an entry under any base directory; no
\* directory is ever removed, and a successful allocation returns an id
\* greater than every id present before the call.
C13_ChosenIsNew ==
    /\ \A b \in BaseDirs : entries0[b] \subseteq before[b] /\ before[b] \subseteq entries[b]
    /\ (Created /\ chosen # None) =>
        \A b \in BaseDirs : chosen \notin before[b]
    /\ (Created /\ setup_exc = NoExc) =>
        \A b \in BaseDirs : \A n \in FourDigits(before, b) :
            int(n) < int(new_version_str)

SwitchEvents == {"switch_ok", "switch_fail"}
LastEvent == IF log = <<>> THEN "none" ELSE log[Len(log)].ev

\* C14: an _activate_version attempt for a version whose directories or files
\* are missing raises ActivationError with the live links and the temporary
\* symlinks as they were, and every link switch of an attempt comes after the
\* asset check of that attempt has succeeded.
AssetCheckStep ==
    (pc = "assets" /\ log' # log) =>
        /\ Intact(version) =>
            /\ log' = Append(log, [ev |-> "assets_ok", ver |-> version, link |-> <<>>])
            /\ pc' = "symlink"
        /\ ~Intact(version) =>
            /\ log' = Append(log, [ev |-> "assets_fail", ver |-> version, link |-> <<>>])
            /\ live' = live
            /\ temps' = temps
            /\ \/ pc' = "raised" /\ exc' = "ActivationError"
               \/ pc' = "assets" /\ rollback_ok /\ ~rollback_ok' /\ version' = old_version
SwitchingAfterCheck ==
    pc \in {"symlink", "rename"} =>
        \E i \in DOMAIN log :
            /\ log[i] = [ev |-> "assets_ok", ver |-> version, link |-> <<>>]
            /\ \A j \in (i + 1)..Len(log) : log[j].ev = "switch_ok"
C14_AssetCheckFirst == []SwitchingAfterCheck /\ [][AssetCheckStep]_vars

C14_Witness ==
    /\ pc = "raised"
    /\ exc = "ActivationError"
    /\ Consistent(startLive, V1)
    /\ version_str = V2
    /\ ~Intact(V2) /\ ~Intact(V1)
    /\ Len(log) = 2
    /\ LastEvent = "assets_fail"
    /\ live = startLive

Checked == cert_checked /\ cert_present
Window == not_valid_after - not_valid_before
\* now > not_before + refresh_at * (not_after - not_before), in whole numbers.
PastRefresh ==
    refresh_at[2] * (now - not_valid_before) > refresh_at[1] * Window

\* C15: for a present certificate new_cert_needed returns true exactly when
\* now > not_before + refresh_at * (not_after - not_before), whatever the
\* validity window; with a window of 100 days and refresh_at 0.5 it is false
\* 49 days after not_before and true 51 days after.
C15_RefreshBoundary ==
    Checked =>
        /\ get_new_cert = PastRefresh
        /\ (Window = 100 * 24 /\ refresh_at = <<1, 2>>) =>
            /\ now = not_valid_before + 49 * 24 => get_new_cert = FALSE
            /\ now = not_valid_before + 51 * 24 => get_new_cert = TRUE

KeyCertChain == <<<<"privkey.pem">>, <<"cert.pem">>, <<"fullchain.pem">>>>
Prefixes == {{KeyCertChain[i] : i \in 1..n} : n \in 0..3}
\* The place in log of the asset check of the attempt that log[i] belongs to.
AttemptStart(i) ==
    CHOOSE a \in 1..i :
        /\ log[a].ev \in AssetEvents
        /\ \A j \in (a + 1)..i : log[j].ev \notin AssetEvents
\* The links the last attempt has switched.
Switched ==
    {log[i].link : i \in {j \in DOMAIN log :
        log[j].ev = "switch_ok" /\ AttemptStart(j) = AttemptStart(Len(log))}}
\* The i-th switch of an attempt is that of the i-th link of (key,
\* certificate, chain), and nothing follows a failed switch in its attempt.
OrderKept ==
    \A i \in DOMAIN log :
        log[i].ev \in SwitchEvents =>
            /\ i - AttemptStart(i) \in 1..3
            /\ log[i].link = KeyCertChain[i - AttemptStart(i)]
            /\ (log[i].ev = "switch_fail" /\ i < Len(log)) =>
                log[i + 1].ev \in AssetEvents
AttemptFailed == pc = "raised" /\ LastEvent = "switch_fail"

\* C16 as stated: the switches of an attempt go in the order key,
\* certificate, chain and stop at the first that fails; after a failed
\* attempt to activate v the live links that resolve into v are a prefix of
\* (key, certificate, chain), and every other link is as before the attempt.
C16_PrefixResolvesToNew ==
    /\ OrderKept
    /\ AttemptFailed =>
        /\ {f \in expected_files : PointsInto(live, f, version)} \in Prefixes
        /\ \A f \in expected_files :
            PointsInto(live, f, version) \/ live[f] = startLive[f]

\* C16 amended: the same order; after a failed attempt to activate v the
\* links the attempt has switched are a prefix of (key, certificate, chain),
\* each of them resolves into v, and every other link is as before the attempt.
C16_SwitchedIsPrefix ==
    /\ OrderKept
    /\ AttemptFailed =>
        /\ Switched \in Prefixes
        /\ \A f \in Switched : PointsInto(live, f, version)
        /\ \A f \in expected_files \ Switched : live[f] = startLive[f]

C16_Witness ==
    /\ AttemptFailed
    /\ Consistent(startLive, V1)
    /\ version = V2
    /\ Switched = {KEY_FILENAME}
    /\ PointsInto(live, KEY_FILENAME, V2)
    /\ PointsInto(live, CERT_FILENAME, V1)
    /\ PointsInto(live, FULLCHAIN_FILENAME, V1)

\* C17: a call makes at most two activation attempts, the forward one and at
\* most one rollback, and a rollback that fails leaves the call with
\* ActivationError.
C17_TwoAttemptsThenActivationError ==
    /\ Attempts <= 2
    /\ (Attempts = 2 /\ pc = "assets") => ~rollback_ok
    /\ (Attempts = 2 /\ pc = "raised") => exc = "ActivationError"

\* The _atomic_link_switch under way switches link Destination.
Switching == pc \in {"symlink", "rename"}
Destination == KeyCertChain[idx]
\* A step changes no live link except the destination of a switch at its
\* rename, and that one to the new source.
SwitchStep ==
    \A f \in expected_files :
        live'[f] # live[f] =>
            /\ pc = "rename"
            /\ f = Destination
            /\ PointsInto(live', f, version)
\* Before the rename the destination is as it was, and so it is when the
\* switch has failed, which raises ActivationError.
SwitchKeepsOld ==
    /\ Switching => live[Destination] = startLive[Destination]
    /\ LastEvent = "switch_fail" =>
        /\ live[log[Len(log)].link] = startLive[log[Len(log)].link]
        /\ switch_exc = "ActivationError"
    /\ LastEvent = "switch_ok" =>
        /\ PointsInto(live, log[Len(log)].link, log[Len(log)].ver)
        /\ switch_exc = NoExc

\* C18: at every step of one _atomic_link_switch the destination resolves to
\* the target it had before the call or to the new source; when os.symlink or
\* os.rename fails the destination is as it was and ActivationError is raised.
C18_AtomicSwitch == []SwitchKeepsOld /\ [][SwitchStep]_vars

C18_Witness ==
    /\ LastEvent = "switch_fail"
    /\ switch_exc = "ActivationError"
    /\ \E i \in DOMAIN log : log[i].ev = "switch_ok"
    /\ log[Len(log)].link = <<"cert.pem">>
    /\ "cert.pem" \in {t[1] : t \in temps}
    /\ Consistent(startLive, V1)
    /\ PointsInto(live, <<"cert.pem">>, V1)
    /\ version = V2

\* C19: the temporary path of a link swap never exists already, not even as
\* the temporary symlink an earlier failed swap of the same link left behind:
\* whenever a swap is about to create its temporary symlink, the path is free.
C19_TempPathFree ==
    pc = "symlink" => KeyCertChain[idx] \notin temps

\* The last create_new_version_dir made its directory under the archive base
\* directory and failed to make it under the key base directory.
PartlyCreated ==
    /\ Created /\ setup_exc # NoExc
    /\ entries[ARCHIVE_DIR] # before[ARCHIVE_DIR]
    /\ entries[KEY_DIR] = before[KEY_DIR]
\* It raised, its directory is still there, and the base directories disagree.
PartLeftInPlace ==
    PartlyCreated =>
        /\ setup_exc = "SetupError" /\ setup_msg = FailedSetup
        /\ chosen \in entries[ARCHIVE_DIR]
        /\ Differ(entries)
\* Every call after that raises the out-of-sync error and creates nothing.
LaterCallsOutOfSync ==
    partial =>
        /\ allocs' # allocs =>
            (setup_exc' = "SetupError" /\ setup_msg' = OutOfSync /\ entries' = entries)
        /\ last' = "list" =>
            (listed'.exc = "SetupError" /\ listed'.msg = OutOfSync)

\* C20: when create_new_version_dir creates its directory under an earlier
\* base directory and fails under a later one, it raises SetupError, leaves
\* the directory it created, the base directories disagree, and every later
\* get_version_dirs and create_new_version_dir raises the out-of-sync error.
C20_PartialAllocationSticks == []PartLeftInPlace /\ [][LaterCallsOutOfSync]_vars

\* The live certificate is missing, or past its refresh point.
LiveCertMissing == live[<<"cert.pem">>] \notin readable
RenewalDue == LiveCertMissing \/ PastRefresh
RunDone == cg_pc = "done"
\* The directories the run has added under base directory b.
AddedUnder(b) == entries[b] \ cg_entries[b]
\* The run allocated one version v under both base directories, generated the
\* key into v's key directory and sent the request for v's archive directory.
RanInOrder ==
    \E v \in entries[ARCHIVE_DIR] :
        /\ AddedUnder(ARCHIVE_DIR) = {v}
        /\ AddedUnder(KEY_DIR) = {v}
        /\ cg_log = << [ev |-> "allocate", path |-> <<v>>],
                       [ev |-> "generate", path |-> KEY_DIR \o <<v>>],
                       [ev |-> "send", path |-> ARCHIVE_DIR \o <<v>>] >>
        /\ KEY_DIR \o <<v, <<"privkey.pem">>>> \in readable

\* C21: a checkgen run leaves the three live links alone; a run that finds
\* renewal due (live certificate missing or past its refresh point) allocates
\* one new version under both base directories, then generates the key into
\* its key directory, then sends the request naming its archive directory;
\* a run that finds renewal not due creates no version directory.
C21_CheckgenFrame ==
    /\ live = startLive
    /\ temps = {}
    /\ (RunDone /\ RenewalDue) => RanInOrder
    /\ (RunDone /\ ~RenewalDue) =>
        /\ cg_log = <<>>
        /\ \A b \in BaseDirs : AddedUnder(b) = {}

\* Version v has its directories, but its certificate and chain are not
\* written yet.
Pending(v) ==
    /\ v \in entries[ARCHIVE_DIR] \cap entries[KEY_DIR]
    /\ ARCHIVE_DIR \o <<v, CERT_FILENAME>> \notin readable
    /\ ARCHIVE_DIR \o <<v, FULLCHAIN_FILENAME>> \notin readable
\* Activating a pending version from Consistent(old) leaves the links at old.
PendingStaysOut ==
    \A old \in Versions :
        (Finished /\ Consistent(startLive, old) /\ Pending(version_str)) =>
            /\ Consistent(live, old)
            /\ ~(pc = "returned" /\ result = version_str)
\* The call activates the version that an earlier call found pending and
\* that has its certificate and chain by now.
RetryOfReady == Finished /\ unready = version_str /\ Intact(version_str)
MadeCurrent ==
    /\ pc = "returned"
    /\ result = version_str
    /\ Consistent(live, version_str)
    /\ get_current_version(live) = [ret |-> version_str, exc |-> NoExc]

\* C22 as stated: activating a version whose certificate and chain are not
\* written yet, from Consistent(old), ends with the live links at old and the
\* version not live; once the signer has written them, a later activation of
\* the same version succeeds and makes it the current version.
C22_PendingThenActivated ==
    /\ PendingStaysOut
    /\ RetryOfReady => MadeCurrent

\* C22 amended: the same, for a later activation whose link switches all
\* succeed.
C22_PendingThenActivatedIfSwitched ==
    /\ PendingStaysOut
    /\ (RetryOfReady /\ ~SwitchFailed) => MadeCurrent

C22_Witness ==
    /\ RetryOfReady /\ ~SwitchFailed
    /\ version_str = V2
    /\ Consistent(startLive, V1)
    /\ Consistent(live, V2)
    /\ result = V2

ExactlyFourDigits(s) ==
    Len(s) = 4 /\ \A i \in 1..4 : s[i] \in
        {"0", "1", "2", "3", "4", "5", "6", "7", "8", "9"}
Exited == pc = "exited"

\* C23: activate_main exits with status 1, having read and changed no live
\* link, when the version string is not exactly four digits or the live
\* directory is not writable; when both checks pass it calls
\* _activate_version_with_rollback.
C23_ActivateMainChecks ==
    pc # "idle" =>
        IF ~ExactlyFourDigits(version_str) \/ ~live_writable
            THEN /\ Exited
                 /\ exit_status = 1
                 /\ live = startLive
                 /\ log = <<>>
                 /\ old_version = None
            ELSE /\ ~Exited
                 /\ exit_status = None

\* The forward activation failed: at its asset check, or at a link switch.
ForwardFailed == ForwardAssetsFailed \/ ForwardSwitchFailed
\* The asset checks of the call, in order.
AssetChecks == SelectSeq(log, LAMBDA e : e.ev \in AssetEvents)
\* The switches the call made after its second asset check.
RollbackSwitches ==
    {i \in DOMAIN log : log[i].ev \in SwitchEvents /\
        Cardinality({j \in 1..i : log[j].ev \in AssetEvents}) = 2}

\* C24: with the live links Consistent(old) and the assets of old gone,
\* _get_current_version still gives old; a failed forward activation is
\* followed by the rollback to old, which fails at its asset check, raises
\* ActivationError to the caller and changes no live link.
C24_RollbackToDeletedOld ==
    \A old \in Versions :
        (Started /\ Consistent(startLive, old) /\ ~Intact(old)) =>
            /\ old_version = old
            /\ (Finished /\ ForwardFailed) =>
                /\ Len(AssetChecks) = 2
                /\ AssetChecks[2] = [ev |-> "assets_fail", ver |-> old, link |-> <<>>]
                /\ RollbackSwitches = {}
                /\ pc = "raised"
                /\ exc = "ActivationError"

\* Every create_new_version_dir so far has returned.
AllReturned == returned = allocs
\* The number of version directories that get_version_dirs finds under b.
UniverseSize(ents, b) == Cardinality(FourDigits(ents, b))

\* C25: pending versions do not keep checkgen from allocating: a run that
\* finds the live certificate missing or past its refresh point reaches
\* create_new_version_dir whatever versions exist, and n such runs in which
\* it returns allocate n distinct versions, each greater than all before it,
\* the universe growing by one with every run.
C25_EveryDueRunAllocates ==
    /\ (cg_pc \in {"done", "generate", "send"} /\ RenewalDue) =>
        /\ last = "create"
        /\ new_version_str \in entries[ARCHIVE_DIR] \ before[ARCHIVE_DIR]
        /\ \A b \in BaseDirs : \A n \in FourDigits(before, b) :
            int(n) < int(new_version_str)
    /\ AllReturned =>
        \A b \in BaseDirs :
            UniverseSize(entries, b) = UniverseSize(entries0, b) + allocs

=============================================================================
